---- MODULE Spec2Model ----
(***************************************************************************)
(* Model of the routing engine of arrows_cli.py (class ArrowGame): the     *)
(* per-cell direction queues, the arrow budget, the edit protocol          *)
(* (_process_orientation / _add_orientation), the stepping function        *)
(* (_advance), the tortoise/hare evaluator (_get_moves) and the animated   *)
(* run (run), as driven by the key loop of edit().                         *)
(*                                                                         *)
(* Python lists have identity: _advance swaps a queue in place, so which   *)
(* table object a name refers to matters.  The table objects are kept in   *)
(* `heap`, indexed by object name; copy.deepcopy yields a fresh object.    *)
(* Positions are <<row, col>> with the 0-based coordinates of the source;  *)
(* a queue is a sequence, queue[1] being Python's direction[0].            *)
(***************************************************************************)
EXTENDS Integers, Sequences, FiniteSets, TLC

VARIABLES
    rows, cols,          \* self._rows, self._cols
    landmarks,           \* self._landmarks : cell -> set of tags
    start,               \* self._start (None when no cell carries START)
    total_arrows,        \* self._total_arrows
    remaining_arrows,    \* self._remaining_arrows
    heap,                \* the table objects: "live" is self._directions
    pc,                  \* where the program is: start, edit, eval, run, ...
    last_op,             \* the handler of edit() that ran last
    tortoise_position,   \* locals of _get_moves
    hare_position,
    moves,
    position,            \* locals of run
    run_moves,
    run_exit,            \* how the run loop was left: quit, goal, dead
    shown_moves,         \* the last value handed to _paint_moves
    run_begin,           \* history: the live table and budget when run began
    key_before,          \* history: the last arrow key and the state it met
                         \* (first: the state the same key met just before)
    step_result,         \* what a direct call of _advance returned last
    departed             \* history: per cell, its last two departures in them

vars == <<rows, cols, landmarks, start, total_arrows, remaining_arrows, heap,
          pc, last_op, tortoise_position, hare_position, moves, position,
          run_moves, run_exit, shown_moves, run_begin, key_before,
          step_result, departed>>

(***************************************************************************)
(* Bounds of the model.                                                    *)
(***************************************************************************)
MaxArrows == 4

AmpleArrows == 6

MaxRunMoves == 12

(***************************************************************************)
(* Constants of the program.                                               *)
(***************************************************************************)
UP == "U"

LEFT == "L"

DOWN == "D"

RIGHT == "R"

GOAL == "G"

START == "S"

BOULDER == "B"

Orientations == {UP, LEFT, DOWN, RIGHT}

INFINITE == -1

None == <<>>

ObjNames == {"live", "orig", "tortoise", "hare"}

(***************************************************************************)
(* Boards handed to the constructor.                                       *)
(***************************************************************************)
CellsOf(r, c) == (0 .. r - 1) \X (0 .. c - 1)

Board(r, c, S, G, B) ==
    [rows |-> r, cols |-> c,
     landmarks |-> [p \in CellsOf(r, c) |->
                      (IF p \in S THEN {START} ELSE {})
                      \cup (IF p \in G THEN {GOAL} ELSE {})
                      \cup (IF p \in B THEN {BOULDER} ELSE {})]]

SmallBoards ==
    { Board(1, 2, {<<0, 0>>}, {<<0, 1>>}, {}),
      Board(1, 2, {<<0, 0>>}, {<<0, 0>>}, {}),
      Board(1, 2, {}, {<<0, 1>>}, {}),
      Board(1, 3, {<<0, 0>>}, {<<0, 2>>}, {<<0, 1>>}),
      Board(2, 2, {<<0, 0>>}, {<<1, 1>>}, {}),
      Board(2, 2, {<<0, 0>>}, {<<0, 1>>}, {<<1, 1>>}),
      Board(2, 2, {<<0, 0>>}, {}, {}) }

LargeBoards == { Board(2, 3, {<<0, 0>>}, {<<1, 0>>}, {}) }

\* the (landmarks, arrows) pairs ArrowGame is constructed with
Sessions ==
    (SmallBoards \X (0 .. MaxArrows)) \cup (LargeBoards \X {AmpleArrows})

Cells == CellsOf(rows, cols)

EmptyTable == [p \in Cells |-> <<>>]

\* __init__, lines 294-301: the first cell in row-major order carrying START
FindStart(r, c, lm) ==
    LET S == {p \in CellsOf(r, c) : START \in lm[p]}
    IN  IF S = {} THEN None
        ELSE CHOOSE p \in S :
               \A q \in S : p[1] < q[1] \/ (p[1] = q[1] /\ p[2] <= q[2])

(***************************************************************************)
(* Static helpers.                                                         *)
(***************************************************************************)
OppositeOrientation(orientation) ==
    CASE orientation = UP -> DOWN
      [] orientation = LEFT -> RIGHT
      [] orientation = DOWN -> UP
      [] orientation = RIGHT -> LEFT
      [] OTHER -> None

CellAtOrientation(p, orientation) ==
    CASE orientation = UP -> <<p[1] - 1, p[2]>>
      [] orientation = LEFT -> <<p[1], p[2] - 1>>
      [] orientation = DOWN -> <<p[1] + 1, p[2]>>
      [] orientation = RIGHT -> <<p[1], p[2] + 1>>
      [] OTHER -> p

PositionIsValid(p) == 0 <= p[1] /\ p[1] < rows /\ 0 <= p[2] /\ p[2] < cols

Contains(direction, orientation) ==
    \E i \in 1 .. Len(direction) : direction[i] = orientation

\* list.index: the first index holding the value
IndexOf(direction, orientation) ==
    CHOOSE i \in 1 .. Len(direction) :
        /\ direction[i] = orientation
        /\ \A j \in 1 .. i - 1 : direction[j] # orientation

\* del direction[i]
DelAt(direction, i) ==
    [j \in 1 .. Len(direction) - 1 |->
        IF j < i THEN direction[j] ELSE direction[j + 1]]

\* plain assignment in place of copy.deepcopy: the same object
SameObject(src, fresh) == src

\* copy.deepcopy(x): a new object, named fresh, equal to src
DeepCopy(src, fresh) == fresh

TortoiseRef == DeepCopy("live", "tortoise")

HareRef == DeepCopy("live", "hare")

OriginalRef == DeepCopy("live", "orig")

\* a local name goes out of scope: its object is dropped unless it is the
\* object self._directions refers to
Release(h, ref) == IF ref = "live" THEN h ELSE [h EXCEPT ![ref] = None]

\* the landmark test with the wrong tag
HasStartTag(p) == START \in landmarks[p]

HasGoal(p) == GOAL \in landmarks[p]

\* _advance without the swap of lines 383-384
AdvanceNoSwap(h, ref, p) ==
    LET direction == h[ref][p]
        stay == [moved |-> FALSE, position |-> p, heap |-> h]
    IN  IF Len(direction) = 0 THEN stay
        ELSE LET next_position == CellAtOrientation(p, direction[1])
             IN  IF ~PositionIsValid(next_position) THEN stay
                 ELSE [moved |-> TRUE, position |-> next_position, heap |-> h]

\* _advance swapping the queue before the test of line 379, not after it
AdvanceSwapFirst(h, ref, p) ==
    LET direction == h[ref][p]
        swapped == IF Len(direction) = 2
                   THEN [h EXCEPT ![ref][p] = <<direction[2], direction[1]>>]
                   ELSE h
    IN  IF Len(direction) = 0
        THEN [moved |-> FALSE, position |-> p, heap |-> h]
        ELSE LET next_position == CellAtOrientation(p, direction[1])
             IN  IF ~PositionIsValid(next_position)
                 THEN [moved |-> FALSE, position |-> p, heap |-> swapped]
                 ELSE [moved |-> TRUE, position |-> next_position,
                       heap |-> swapped]

(***************************************************************************)
(* _advance(position, directions): follow the first arrow of the queue at  *)
(* position in the table object ref, swapping a 2-entry queue in place.    *)
(***************************************************************************)
Advance(h, ref, p) ==
    LET direction == h[ref][p]
        stay == [moved |-> FALSE, position |-> p, heap |-> h]
    IN  IF Len(direction) = 0 THEN stay
        ELSE LET next_position == CellAtOrientation(p, direction[1])
             IN  IF ~PositionIsValid(next_position) THEN stay
                 ELSE [moved |-> TRUE,
                       position |-> next_position,
                       heap |-> IF Len(direction) = 2
                                THEN [h EXCEPT ![ref][p] =
                                          <<direction[2], direction[1]>>]
                                ELSE h]

\* _can_add_orientation without the test of the neighbour's landmark
CanAddOrientationIntoBoulder(p, orientation) ==
    IF ~PositionIsValid(p) THEN FALSE
    ELSE IF GOAL \in landmarks[p] \/ BOULDER \in landmarks[p] THEN FALSE
    ELSE PositionIsValid(CellAtOrientation(p, orientation))

\* _can_add_orientation without the test of the cell's own landmark
CanAddOrientationFromLandmark(p, orientation) ==
    IF ~PositionIsValid(p) THEN FALSE
    ELSE LET nonlocal_position == CellAtOrientation(p, orientation)
         IN  IF ~PositionIsValid(nonlocal_position) THEN FALSE
             ELSE IF BOULDER \in landmarks[nonlocal_position] THEN FALSE
             ELSE TRUE

\* _can_add_orientation testing the neighbour for the wrong landmark
CanAddOrientationWrongTag(p, orientation) ==
    IF ~PositionIsValid(p) THEN FALSE
    ELSE IF GOAL \in landmarks[p] \/ BOULDER \in landmarks[p] THEN FALSE
    ELSE LET nonlocal_position == CellAtOrientation(p, orientation)
         IN  IF ~PositionIsValid(nonlocal_position) THEN FALSE
             ELSE IF GOAL \in landmarks[nonlocal_position] THEN FALSE
             ELSE TRUE

(***************************************************************************)
(* _can_add_orientation                                                    *)
(***************************************************************************)
CanAddOrientation(p, orientation) ==
    IF ~PositionIsValid(p) THEN FALSE
    ELSE IF GOAL \in landmarks[p] \/ BOULDER \in landmarks[p] THEN FALSE
    ELSE LET nonlocal_position == CellAtOrientation(p, orientation)
         IN  IF ~PositionIsValid(nonlocal_position) THEN FALSE
             ELSE IF BOULDER \in landmarks[nonlocal_position] THEN FALSE
             ELSE TRUE

\* _add_orientation that retracts the opposite arrow without the refund
AddOrientationNoRefund(table, remaining, p, orientation) ==
    LET nonlocal_position == CellAtOrientation(p, orientation)
        nonlocal_orientation == OppositeOrientation(orientation)
    IN  IF ~PositionIsValid(nonlocal_position)
        THEN [table |-> table, remaining |-> remaining]
        ELSE
        LET nonlocal_direction == table[nonlocal_position]
            table1 == IF Contains(nonlocal_direction, nonlocal_orientation)
                      THEN [table EXCEPT ![nonlocal_position] =
                              DelAt(nonlocal_direction,
                                    IndexOf(nonlocal_direction,
                                            nonlocal_orientation))]
                      ELSE table
        IN  IF remaining > 0
            THEN [table |-> [table1 EXCEPT ![p] = <<orientation>> \o table1[p]],
                  remaining |-> remaining - 1]
            ELSE [table |-> table1, remaining |-> remaining]

\* _add_orientation that leaves the opposite arrow of the neighbour in place
AddOrientationNoRetract(table, remaining, p, orientation) ==
    IF ~PositionIsValid(CellAtOrientation(p, orientation))
    THEN [table |-> table, remaining |-> remaining]
    ELSE IF remaining > 0
         THEN [table |-> [table EXCEPT ![p] = <<orientation>> \o table[p]],
               remaining |-> remaining - 1]
         ELSE [table |-> table, remaining |-> remaining]

\* _add_orientation without the test of the budget (line 446)
AddOrientationNoBudgetTest(table, remaining, p, orientation) ==
    LET nonlocal_position == CellAtOrientation(p, orientation)
    IN  IF ~PositionIsValid(nonlocal_position)
        THEN [table |-> table, remaining |-> remaining]
        ELSE
        LET nonlocal_orientation == OppositeOrientation(orientation)
            nonlocal_direction == table[nonlocal_position]
            found == Contains(nonlocal_direction, nonlocal_orientation)
            table1 == IF found
                      THEN [table EXCEPT ![nonlocal_position] =
                              DelAt(nonlocal_direction,
                                    IndexOf(nonlocal_direction,
                                            nonlocal_orientation))]
                      ELSE table
            remaining1 == IF found THEN remaining + 1 ELSE remaining
        IN  [table |-> [table1 EXCEPT ![p] = <<orientation>> \o table1[p]],
             remaining |-> remaining1 - 1]

\* _add_orientation with the budget test of line 446 off by one (>= 0)
AddOrientationBudgetOffByOne(table, remaining, p, orientation) ==
    LET nonlocal_position == CellAtOrientation(p, orientation)
    IN  IF ~PositionIsValid(nonlocal_position)
        THEN [table |-> table, remaining |-> remaining]
        ELSE
        LET nonlocal_orientation == OppositeOrientation(orientation)
            nonlocal_direction == table[nonlocal_position]
            found == Contains(nonlocal_direction, nonlocal_orientation)
            table1 == IF found
                      THEN [table EXCEPT ![nonlocal_position] =
                              DelAt(nonlocal_direction,
                                    IndexOf(nonlocal_direction,
                                            nonlocal_orientation))]
                      ELSE table
            remaining1 == IF found THEN remaining + 1 ELSE remaining
        IN  IF remaining1 >= 0
            THEN [table |-> [table1 EXCEPT ![p] = <<orientation>> \o table1[p]],
                  remaining |-> remaining1 - 1]
            ELSE [table |-> table1, remaining |-> remaining1]

\* _add_orientation testing the budget as it was before the opposite-edge
\* refund
AddOrientationBudgetFirst(table, remaining, p, orientation) ==
    LET nonlocal_position == CellAtOrientation(p, orientation)
    IN  IF ~PositionIsValid(nonlocal_position)
        THEN [table |-> table, remaining |-> remaining]
        ELSE
        LET nonlocal_orientation == OppositeOrientation(orientation)
            nonlocal_direction == table[nonlocal_position]
            found == Contains(nonlocal_direction, nonlocal_orientation)
            table1 == IF found
                      THEN [table EXCEPT ![nonlocal_position] =
                              DelAt(nonlocal_direction,
                                    IndexOf(nonlocal_direction,
                                            nonlocal_orientation))]
                      ELSE table
            remaining1 == IF found THEN remaining + 1 ELSE remaining
        IN  IF remaining > 0
            THEN [table |-> [table1 EXCEPT ![p] = <<orientation>> \o table1[p]],
                  remaining |-> remaining1 - 1]
            ELSE [table |-> table1, remaining |-> remaining1]

\* _add_orientation appending the new arrow instead of inserting it at index 0
AddOrientationAppend(table, remaining, p, orientation) ==
    LET nonlocal_position == CellAtOrientation(p, orientation)
    IN  IF ~PositionIsValid(nonlocal_position)
        THEN [table |-> table, remaining |-> remaining]
        ELSE
        LET nonlocal_orientation == OppositeOrientation(orientation)
            nonlocal_direction == table[nonlocal_position]
            found == Contains(nonlocal_direction, nonlocal_orientation)
            table1 == IF found
                      THEN [table EXCEPT ![nonlocal_position] =
                              DelAt(nonlocal_direction,
                                    IndexOf(nonlocal_direction,
                                            nonlocal_orientation))]
                      ELSE table
            remaining1 == IF found THEN remaining + 1 ELSE remaining
        IN  IF remaining1 > 0
            THEN [table |-> [table1 EXCEPT ![p] = table1[p] \o <<orientation>>],
                  remaining |-> remaining1 - 1]
            ELSE [table |-> table1, remaining |-> remaining1]

(***************************************************************************)
(* _add_orientation on the live table; yields the table and the budget.    *)
(***************************************************************************)
AddOrientation(table, remaining, p, orientation) ==
    LET nonlocal_position == CellAtOrientation(p, orientation)
        unchanged == [table |-> table, remaining |-> remaining]
    IN  IF ~PositionIsValid(nonlocal_position) THEN unchanged
        ELSE
        LET nonlocal_orientation == OppositeOrientation(orientation)
            nonlocal_direction == table[nonlocal_position]
            found == Contains(nonlocal_direction, nonlocal_orientation)
            table1 == IF found
                      THEN [table EXCEPT ![nonlocal_position] =
                              DelAt(nonlocal_direction,
                                    IndexOf(nonlocal_direction,
                                            nonlocal_orientation))]
                      ELSE table
            remaining1 == IF found THEN remaining + 1 ELSE remaining
        IN  IF remaining1 > 0
            THEN [table |-> [table1 EXCEPT ![p] = <<orientation>> \o table1[p]],
                  remaining |-> remaining1 - 1]
            ELSE [table |-> table1, remaining |-> remaining1]

\* _process_orientation that keeps direction[1] when a full queue gets a
\* third orientation
ProcessOrientationKeepSecond(table, remaining, p, orientation) ==
    LET addable == CanAddOrientation(p, orientation)
        direction == table[p]
        unchanged == [table |-> table, remaining |-> remaining]
    IN  IF Len(direction) >= 1 /\ direction[1] = orientation
        THEN [table |-> [table EXCEPT ![p] = DelAt(direction, 1)],
              remaining |-> remaining + 1]
        ELSE IF Len(direction) = 2 /\ direction[2] = orientation
        THEN [table |-> [table EXCEPT ![p] = <<direction[2], direction[1]>>],
              remaining |-> remaining]
        ELSE IF addable THEN AddOrientation(table, remaining, p, orientation)
        ELSE unchanged

\* _process_orientation removing the inactive arrow of a full queue when the
\* active one is asked for
ProcessOrientationRemovesInactive(table, remaining, p, orientation) ==
    LET addable == CanAddOrientation(p, orientation)
        direction == table[p]
        unchanged == [table |-> table, remaining |-> remaining]
    IN  IF Len(direction) = 0
        THEN IF addable THEN AddOrientation(table, remaining, p, orientation)
             ELSE unchanged
        ELSE IF Len(direction) = 1
        THEN IF direction[1] = orientation
             THEN [table |-> [table EXCEPT ![p] = DelAt(direction, 1)],
                   remaining |-> remaining + 1]
             ELSE IF addable
                  THEN AddOrientation(table, remaining, p, orientation)
                  ELSE unchanged
        ELSE IF direction[1] = orientation
             THEN [table |-> [table EXCEPT ![p] = DelAt(direction, 2)],
                   remaining |-> remaining + 1]
             ELSE IF direction[2] = orientation
             THEN [table |-> [table EXCEPT ![p] =
                                <<direction[2], direction[1]>>],
                   remaining |-> remaining]
             ELSE IF addable
                  THEN AddOrientation(
                          [table EXCEPT ![p] = DelAt(direction, 2)],
                          remaining + 1, p, orientation)
                  ELSE unchanged

\* _process_orientation removing the active arrow when the inactive one is
\* asked for, instead of swapping the two
ProcessOrientationSwapRemoves(table, remaining, p, orientation) ==
    LET addable == CanAddOrientation(p, orientation)
        direction == table[p]
        unchanged == [table |-> table, remaining |-> remaining]
    IN  IF Len(direction) = 0
        THEN IF addable THEN AddOrientation(table, remaining, p, orientation)
             ELSE unchanged
        ELSE IF Len(direction) = 1
        THEN IF direction[1] = orientation
             THEN [table |-> [table EXCEPT ![p] = DelAt(direction, 1)],
                   remaining |-> remaining + 1]
             ELSE IF addable
                  THEN AddOrientation(table, remaining, p, orientation)
                  ELSE unchanged
        ELSE IF direction[1] = orientation
             THEN [table |-> [table EXCEPT ![p] = DelAt(direction, 1)],
                   remaining |-> remaining + 1]
             ELSE IF direction[2] = orientation
             THEN [table |-> [table EXCEPT ![p] = DelAt(direction, 1)],
                   remaining |-> remaining + 1]
             ELSE IF addable
                  THEN AddOrientation(
                          [table EXCEPT ![p] = DelAt(direction, 2)],
                          remaining + 1, p, orientation)
                  ELSE unchanged

\* _process_orientation without the refund of lines 469 and 476 when the
\* active arrow is removed
ProcessOrientationRemoveNoRefund(table, remaining, p, orientation) ==
    LET addable == CanAddOrientation(p, orientation)
        direction == table[p]
        unchanged == [table |-> table, remaining |-> remaining]
    IN  IF Len(direction) = 0
        THEN IF addable THEN AddOrientation(table, remaining, p, orientation)
             ELSE unchanged
        ELSE IF Len(direction) = 1
        THEN IF direction[1] = orientation
             THEN [table |-> [table EXCEPT ![p] = DelAt(direction, 1)],
                   remaining |-> remaining]
             ELSE IF addable
                  THEN AddOrientation(table, remaining, p, orientation)
                  ELSE unchanged
        ELSE IF direction[1] = orientation
             THEN [table |-> [table EXCEPT ![p] = DelAt(direction, 1)],
                   remaining |-> remaining]
             ELSE IF direction[2] = orientation
             THEN [table |-> [table EXCEPT ![p] =
                                <<direction[2], direction[1]>>],
                   remaining |-> remaining]
             ELSE IF addable
                  THEN AddOrientation(
                          [table EXCEPT ![p] = DelAt(direction, 2)],
                          remaining + 1, p, orientation)
                  ELSE unchanged

(***************************************************************************)
(* _process_orientation                                                    *)
(***************************************************************************)
ProcessOrientation(table, remaining, p, orientation) ==
    LET addable == CanAddOrientation(p, orientation)
        direction == table[p]
        unchanged == [table |-> table, remaining |-> remaining]
    IN  IF Len(direction) = 0
        THEN IF addable THEN AddOrientation(table, remaining, p, orientation)
             ELSE unchanged
        ELSE IF Len(direction) = 1
        THEN IF direction[1] = orientation
             THEN [table |-> [table EXCEPT ![p] = DelAt(direction, 1)],
                   remaining |-> remaining + 1]
             ELSE IF addable
                  THEN AddOrientation(table, remaining, p, orientation)
                  ELSE unchanged
        ELSE IF direction[1] = orientation
             THEN [table |-> [table EXCEPT ![p] = DelAt(direction, 1)],
                   remaining |-> remaining + 1]
             ELSE IF direction[2] = orientation
             THEN [table |-> [table EXCEPT ![p] =
                                <<direction[2], direction[1]>>],
                   remaining |-> remaining]
             ELSE IF addable
                  THEN AddOrientation(
                          [table EXCEPT ![p] = DelAt(direction, 2)],
                          remaining + 1, p, orientation)
                  ELSE unchanged

(***************************************************************************)
(* Initial state: the object after __init__, for each board and budget.    *)
(***************************************************************************)
Init ==
    \E s \in Sessions :
      LET b == s[1]
          arrows == s[2]
      IN
        /\ rows = b.rows
        /\ cols = b.cols
        /\ landmarks = b.landmarks
        /\ start = FindStart(b.rows, b.cols, b.landmarks)
        /\ total_arrows = arrows
        /\ remaining_arrows = arrows
        /\ heap = [o \in ObjNames |->
                     IF o = "live"
                     THEN [p \in CellsOf(b.rows, b.cols) |-> <<>>]
                     ELSE None]
        /\ pc = "start"
        /\ last_op = "none"
        /\ tortoise_position = None
        /\ hare_position = None
        /\ moves = 0
        /\ position = None
        /\ run_moves = 0
        /\ run_exit = "none"
        /\ shown_moves = 0
        /\ run_begin = None
        /\ key_before = None
        /\ step_result = "none"
        /\ departed = None

Fixed == UNCHANGED <<rows, cols, landmarks, start, total_arrows>>

(***************************************************************************)
(* _get_moves, lines 494-499: the copies taken before the loop.            *)
(***************************************************************************)
BeginGetMoves(h) ==
    /\ heap' = [[h EXCEPT ![TortoiseRef] = h["live"]]
                   EXCEPT ![HareRef] = h["live"]]
    /\ tortoise_position' = start
    /\ hare_position' = start
    /\ moves' = 0
    /\ pc' = "eval"

\* return from _get_moves into _paint_moves; control is back in edit's loop
ReturnMoves(h, m) ==
    /\ heap' = Release(Release(h, TortoiseRef), HareRef)
    /\ tortoise_position' = None
    /\ hare_position' = None
    /\ moves' = 0
    /\ shown_moves' = m
    /\ pc' = "edit"

\* the comparison of lines 520-521 on the positions alone
CycleDetectedByPosition(h, tp, hp) == tp = hp

\* the comparison of lines 520-521 with the tables compared by identity
CycleDetectedByIdentity(h, tp, hp) == tp = hp /\ TortoiseRef = HareRef

\* line 520-521: tortoise and hare are in the same state
CycleDetected(h, tp, hp) == tp = hp /\ h[TortoiseRef] = h[HareRef]

\* the loop of _get_moves without the goal test between the two hare steps
\* (lines 510-512)
EvalRoundNoMidCheck ==
    /\ pc = "eval"
    /\ Fixed
    /\ UNCHANGED <<step_result, departed>>
    /\ UNCHANGED <<remaining_arrows, last_op, position, run_moves, run_exit,
                   run_begin, key_before>>
    /\ IF hare_position = None
       THEN /\ pc' = "crashed"
            /\ UNCHANGED <<heap, tortoise_position, hare_position, moves,
                           shown_moves>>
       ELSE IF HasGoal(hare_position) THEN ReturnMoves(heap, moves)
       ELSE
       LET a1 == Advance(heap, HareRef, hare_position)
       IN  IF ~a1.moved THEN ReturnMoves(a1.heap, INFINITE)
           ELSE
           LET a2 == Advance(a1.heap, HareRef, a1.position)
           IN  IF ~a2.moved THEN ReturnMoves(a2.heap, INFINITE)
               ELSE
               LET a3 == Advance(a2.heap, TortoiseRef, tortoise_position)
               IN  IF CycleDetected(a3.heap, a3.position, a2.position)
                   THEN ReturnMoves(a3.heap, INFINITE)
                   ELSE /\ heap' = a3.heap
                        /\ tortoise_position' = a3.position
                        /\ hare_position' = a2.position
                        /\ moves' = moves + 2
                        /\ UNCHANGED <<pc, shown_moves>>

(***************************************************************************)
(* One iteration of the while loop of _get_moves.                          *)
(***************************************************************************)
EvalRound ==
    /\ pc = "eval"
    /\ Fixed
    /\ UNCHANGED <<step_result, departed>>
    /\ UNCHANGED <<remaining_arrows, last_op, position, run_moves, run_exit,
                   run_begin, key_before>>
    /\ IF hare_position = None
       THEN \* subscripting None raises TypeError
            /\ pc' = "crashed"
            /\ UNCHANGED <<heap, tortoise_position, hare_position, moves,
                           shown_moves>>
       ELSE IF HasGoal(hare_position) THEN ReturnMoves(heap, moves)
       ELSE
       LET a1 == Advance(heap, HareRef, hare_position)
       IN  IF ~a1.moved THEN ReturnMoves(a1.heap, INFINITE)
           ELSE IF HasGoal(a1.position) THEN ReturnMoves(a1.heap, moves + 1)
           ELSE
           LET a2 == Advance(a1.heap, HareRef, a1.position)
           IN  IF ~a2.moved THEN ReturnMoves(a2.heap, INFINITE)
               ELSE
               LET a3 == Advance(a2.heap, TortoiseRef, tortoise_position)
               IN  IF CycleDetected(a3.heap, a3.position, a2.position)
                   THEN ReturnMoves(a3.heap, INFINITE)
                   ELSE /\ heap' = a3.heap
                        /\ tortoise_position' = a3.position
                        /\ hare_position' = a2.position
                        /\ moves' = moves + 2
                        /\ UNCHANGED <<pc, shown_moves>>

(***************************************************************************)
(* edit(): entry, lines 634-641.                                           *)
(***************************************************************************)
EditStart ==
    /\ pc = "start"
    /\ Fixed
    /\ UNCHANGED <<step_result, departed>>
    /\ last_op' = "start"
    /\ BeginGetMoves(heap)
    /\ UNCHANGED <<remaining_arrows, position, run_moves, run_exit,
                   shown_moves, run_begin, key_before>>

(***************************************************************************)
(* edit(): an arrow key at cursor position p, lines 669-682.               *)
(***************************************************************************)
KeyArrow(p, orientation) ==
    /\ pc = "edit"
    /\ Fixed
    /\ UNCHANGED <<step_result, departed>>
    /\ LET r == ProcessOrientation(heap["live"], remaining_arrows,
                                   p, orientation)
       IN  /\ remaining_arrows' = r.remaining
           /\ BeginGetMoves([heap EXCEPT !["live"] = r.table])
    /\ last_op' = "key"
    /\ key_before' = [position |-> p, orientation |-> orientation,
                      table |-> heap["live"], remaining |-> remaining_arrows,
                      first |-> IF /\ last_op = "key"
                                   /\ key_before.position = p
                                   /\ key_before.orientation = orientation
                                THEN <<[table |-> key_before.table,
                                        remaining |-> key_before.remaining]>>
                                ELSE <<>>]
    /\ run_moves' = 0
    /\ run_exit' = "none"
    /\ run_begin' = None
    /\ UNCHANGED <<position, shown_moves>>

\* the r key without line 699: the budget is not put back
KeyResetKeepBudget ==
    /\ pc = "edit"
    /\ Fixed
    /\ UNCHANGED <<step_result, departed>>
    /\ BeginGetMoves([heap EXCEPT !["live"] = EmptyTable])
    /\ last_op' = "reset"
    /\ key_before' = None
    /\ run_moves' = 0
    /\ run_exit' = "none"
    /\ run_begin' = None
    /\ UNCHANGED <<remaining_arrows, position, shown_moves>>

(***************************************************************************)
(* edit(): the r key, lines 695-704.                                       *)
(***************************************************************************)
KeyReset ==
    /\ pc = "edit"
    /\ Fixed
    /\ UNCHANGED <<step_result, departed>>
    /\ remaining_arrows' = total_arrows
    /\ BeginGetMoves([heap EXCEPT !["live"] = EmptyTable])
    /\ last_op' = "reset"
    /\ key_before' = None
    /\ run_moves' = 0
    /\ run_exit' = "none"
    /\ run_begin' = None
    /\ UNCHANGED <<position, shown_moves>>

(***************************************************************************)
(* edit(): the g key, and run() up to its loop, lines 685-565.             *)
(***************************************************************************)
KeyRun ==
    /\ pc = "edit"
    /\ Fixed
    /\ UNCHANGED <<step_result, departed>>
    /\ position' = start
    /\ heap' = [heap EXCEPT ![OriginalRef] = heap["live"]]
    /\ run_moves' = 0
    /\ run_exit' = "none"
    /\ last_op' = "run"
    /\ run_begin' = [table |-> heap["live"], remaining |-> remaining_arrows]
    /\ key_before' = None
    /\ pc' = "run"
    /\ UNCHANGED <<remaining_arrows, tortoise_position, hare_position, moves,
                   shown_moves>>

\* run() without line 623: the table the run stepped stays in place
LeaveRunNoRestore(h, m, how) ==
    /\ run_moves' = m
    /\ run_exit' = how
    /\ position' = None
    /\ BeginGetMoves(Release(h, OriginalRef))
    /\ UNCHANGED <<run_begin>>

\* run(), lines 614-628: the loop was left; put the original table back and
\* recompute the move count
LeaveRun(h, m, how) ==
    /\ run_moves' = m
    /\ run_exit' = how
    /\ position' = None
    /\ BeginGetMoves(Release([h EXCEPT !["live"] = h[OriginalRef]],
                             OriginalRef))
    /\ UNCHANGED <<run_begin>>

\* run() without the break of line 602: after a failed _advance the loop
\* goes on, moves being -1 + 1
RunIterNoDeadEndExit(quit) ==
    /\ pc = "run"
    /\ Fixed
    /\ UNCHANGED <<step_result, departed>>
    /\ UNCHANGED <<remaining_arrows, last_op, key_before>>
    /\ shown_moves' = run_moves
    /\ IF quit THEN LeaveRun(heap, run_moves, "quit")
       ELSE IF HasGoal(position) THEN LeaveRun(heap, run_moves, "goal")
       ELSE LET a == Advance(heap, "live", position)
            IN  /\ run_moves < MaxRunMoves
                /\ heap' = a.heap
                /\ position' = a.position
                /\ run_moves' = IF a.moved THEN run_moves + 1 ELSE 0
                /\ UNCHANGED <<pc, run_exit, run_begin,
                               tortoise_position, hare_position, moves>>

(***************************************************************************)
(* run(): one iteration of the loop, lines 567-612; quit says whether the  *)
(* key read by getch was q.                                                *)
(***************************************************************************)
RunIter(quit) ==
    /\ pc = "run"
    /\ Fixed
    /\ UNCHANGED <<step_result, departed>>
    /\ UNCHANGED <<remaining_arrows, last_op, key_before>>
    /\ shown_moves' = run_moves    \* _paint_moves(stdscr, moves), line 572
    /\ IF quit THEN LeaveRun(heap, run_moves, "quit")
       ELSE IF HasGoal(position) THEN LeaveRun(heap, run_moves, "goal")
       ELSE LET a == Advance(heap, "live", position)
            IN  IF ~a.moved THEN LeaveRun(a.heap, INFINITE, "dead")
                ELSE /\ run_moves < MaxRunMoves
                     /\ heap' = a.heap
                     /\ position' = a.position
                     /\ run_moves' = run_moves + 1
                     /\ UNCHANGED <<pc, run_exit, run_begin,
                                    tortoise_position, hare_position, moves>>

(***************************************************************************)
(* edit(): the q key, lines 706-710.                                       *)
(***************************************************************************)
KeyQuit ==
    /\ pc = "edit"
    /\ pc' = "done"
    /\ UNCHANGED <<rows, cols, landmarks, start, total_arrows,
                   remaining_arrows, heap, last_op, tortoise_position,
                   hare_position, moves, position, run_moves, run_exit,
                   shown_moves, run_begin, key_before, step_result,
                   departed>>

Next ==
    \/ EditStart
    \/ \E p \in Cells, orientation \in Orientations : KeyArrow(p, orientation)
    \/ KeyReset
    \/ KeyRun
    \/ \E quit \in BOOLEAN : RunIter(quit)
    \/ EvalRound
    \/ KeyQuit

Spec == Init /\ [][Next]_vars

(***************************************************************************)
(* _advance called directly: its directions argument may be any table of   *)
(* queues of at most two orientations, whatever the landmarks allow, and   *)
(* its position argument any cell.                                         *)
(***************************************************************************)
Queues ==
    {<<>>} \cup {<<a>> : a \in Orientations}
           \cup {<<a, b>> : a \in Orientations, b \in Orientations}

StepBoards ==
    { Board(1, 3, {<<0, 0>>}, {<<0, 2>>}, {<<0, 1>>}),
      Board(2, 1, {<<0, 0>>}, {<<1, 0>>}, {}) }

StepInit ==
    \E b \in StepBoards :
      \E directions \in [CellsOf(b.rows, b.cols) -> Queues] :
        \E p \in CellsOf(b.rows, b.cols) :
          /\ rows = b.rows
          /\ cols = b.cols
          /\ landmarks = b.landmarks
          /\ start = FindStart(b.rows, b.cols, b.landmarks)
          /\ total_arrows = 0
          /\ remaining_arrows = 0
          /\ heap = [o \in ObjNames |->
                       IF o = "live" THEN directions ELSE None]
          /\ pc = "step"
          /\ last_op = "none"
          /\ tortoise_position = None
          /\ hare_position = None
          /\ moves = 0
          /\ position = p
          /\ run_moves = 0
          /\ run_exit = "none"
          /\ shown_moves = 0
          /\ run_begin = None
          /\ key_before = None
          /\ step_result = "none"
          /\ departed = [c \in CellsOf(b.rows, b.cols) |-> <<>>]

\* one call of _advance(position, directions); position and directions are
\* the caller's objects, changed in place, so the next call goes on from them
Step ==
    /\ pc = "step"
    /\ Fixed
    /\ LET a == Advance(heap, "live", position)
       IN  /\ heap' = a.heap
           /\ position' = a.position
           /\ step_result' = IF a.moved THEN "moved" ELSE "stayed"
           /\ departed' =
                IF a.moved
                THEN [departed EXCEPT ![position] =
                        <<[queue |-> heap["live"][position],
                           to |-> a.position]>>
                        \o (IF Len(@) = 0 THEN <<>> ELSE <<@[1]>>)]
                ELSE departed
    /\ UNCHANGED <<remaining_arrows, pc, last_op, tortoise_position,
                   hare_position, moves, run_moves, run_exit, shown_moves,
                   run_begin, key_before>>

StepNext == Step

StepSpec == StepInit /\ [][StepNext]_vars

(***************************************************************************)
(* run(), lines 565-579: getch waits at most delay milliseconds, so an     *)
(* iteration of the loop in which q was not pressed always comes.          *)
(***************************************************************************)
FairSpec == Spec /\ WF_vars(RunIter(FALSE))

(***************************************************************************)
(* Properties.                                                             *)
(***************************************************************************)
LiveTable == heap["live"]

\* the number of arrows a table holds: the sum of its queue lengths
ArrowCount(table) ==
    Cardinality(UNION {{p} \X (1 .. Len(table[p])) : p \in DOMAIN table})

\* the arrow key last pressed, after its handler has returned to edit's loop
KeyHandled == pc = "edit" /\ last_op = "key"

\* C1: budget invariant.  In every reachable state (so after every arrow key,
\* reset, evaluation and each step of a run) remaining_arrows plus the sum of
\* the lengths of all queues of the live table equals total_arrows, and
\* 0 <= remaining_arrows <= total_arrows.
BudgetInvariant ==
    /\ remaining_arrows + ArrowCount(LiveTable) = total_arrows
    /\ 0 <= remaining_arrows
    /\ remaining_arrows <= total_arrows

\* an arrow key pressed with an exhausted budget changed the table (it
\* retracted and placed) and the budget is exhausted again
BudgetWitness ==
    /\ KeyHandled
    /\ total_arrows >= 2
    /\ key_before.remaining = 0
    /\ remaining_arrows = 0
    /\ LiveTable # key_before.table
    /\ \E p \in Cells : Len(LiveTable[p]) = 2

\* C2: edge exclusivity.  In every reachable state, for every cell A and
\* direction d whose neighbour B is inside the grid, A's queue does not hold d
\* while B's queue holds the opposite of d.
EdgeExclusivity ==
    \A p \in Cells, d \in Orientations :
        LET n == CellAtOrientation(p, d)
        IN  n \in Cells =>
              ~(/\ \E i \in 1 .. Len(LiveTable[p]) : LiveTable[p][i] = d
                /\ \E j \in 1 .. Len(LiveTable[n]) :
                      LiveTable[n][j] = OppositeOrientation(d))

\* the last arrow key placed d at a cell whose neighbour held the opposite
\* arrow on the same edge
EdgeWitness ==
    /\ KeyHandled
    /\ LET p == key_before.position
           d == key_before.orientation
           n == CellAtOrientation(p, d)
       IN  /\ n \in Cells
           /\ \E j \in 1 .. Len(key_before.table[n]) :
                 key_before.table[n][j] = OppositeOrientation(d)
           /\ Len(LiveTable[p]) >= 1
           /\ LiveTable[p][1] = d

\* C3: queue shape.  In every reachable state every queue of the live table
\* has length 0, 1 or 2, and a queue of length 2 holds two distinct
\* directions.
QueueShape ==
    \A p \in Cells :
        /\ Len(LiveTable[p]) <= 2
        /\ \A i, j \in 1 .. Len(LiveTable[p]) :
              i # j => LiveTable[p][i] # LiveTable[p][j]

\* the last arrow key asked a full queue for a third direction, which
\* replaced the inactive entry
QueueWitness ==
    /\ KeyHandled
    /\ LET p == key_before.position
           d == key_before.orientation
           old == key_before.table[p]
       IN  /\ Len(old) = 2
           /\ old[1] # d
           /\ old[2] # d
           /\ LiveTable[p] = <<d, old[1]>>

\* every arrow of a table leaves a cell without GOAL and BOULDER and points
\* to a cell of the grid without BOULDER
Legal(table) ==
    \A p \in Cells :
        \A i \in 1 .. Len(table[p]) :
            LET n == CellAtOrientation(p, table[p][i])
            IN  /\ GOAL \notin landmarks[p]
                /\ BOULDER \notin landmarks[p]
                /\ n \in Cells
                /\ BOULDER \notin landmarks[n]

\* C4: legality.  In every reachable state the live table, and every copy of
\* it that is stepped, holds only arrows that leave a cell without GOAL and
\* BOULDER and point to a cell inside the grid without BOULDER; so no step
\* meets an arrow pointing off the grid, and the token of a run is always
\* inside the grid and is never moved into a BOULDER cell.
Legality ==
    /\ \A o \in ObjNames : heap[o] # None => Legal(heap[o])
    /\ pc = "run" =>
          /\ position \in Cells
          /\ run_moves > 0 => BOULDER \notin landmarks[position]

\* a run has moved the token next to a BOULDER cell
LegalityWitness ==
    /\ pc = "run"
    /\ run_moves >= 1
    /\ \E d \in Orientations :
          /\ CellAtOrientation(position, d) \in Cells
          /\ BOULDER \in landmarks[CellAtOrientation(position, d)]

\* the number of states (position, toggle state of the 2-entry queues) the
\* walk over a table can be in
WalkBound(table) ==
    Cardinality(Cells) * 2 ^ Cardinality({p \in Cells : Len(table[p]) = 2})

\* the deterministic walk: follow the active arrow, swap a 2-entry queue on
\* departure; the number of moves after which it first stands on a GOAL cell,
\* or INFINITE when it dead-ends or has not met GOAL within fuel moves
RECURSIVE Walk(_, _, _, _)
Walk(table, p, n, fuel) ==
    IF GOAL \in landmarks[p] THEN n
    ELSE IF fuel = 0 \/ Len(table[p]) = 0 THEN INFINITE
    ELSE LET next == CellAtOrientation(p, table[p][1])
         IN  IF next \notin Cells THEN INFINITE
             ELSE Walk([table EXCEPT ![p] =
                           IF Len(@) = 2 THEN <<@[2], @[1]>> ELSE @],
                       next, n + 1, fuel - 1)

\* a walk that has not met GOAL within WalkBound moves has repeated a state
\* and never meets it
WalkMoves(table) == Walk(table, start, 0, WalkBound(table))

\* whether the walk comes to a cell it cannot leave
RECURSIVE WalkDeadEnds(_, _, _)
WalkDeadEnds(table, p, fuel) ==
    IF Len(table[p]) = 0 \/ CellAtOrientation(p, table[p][1]) \notin Cells
    THEN TRUE
    ELSE IF fuel = 0 THEN FALSE
    ELSE WalkDeadEnds([table EXCEPT ![p] =
                          IF Len(@) = 2 THEN <<@[2], @[1]>> ELSE @],
                      CellAtOrientation(p, table[p][1]), fuel - 1)

\* C5: evaluate is exact.  Whenever control is in edit's loop, the move count
\* last computed by _get_moves for the live table is N >= 0 exactly when the
\* walk from the start first stands on a GOAL cell after N moves, and is
\* INFINITE (-1) exactly when the walk never meets GOAL.
EvaluateExact == pc = "edit" => shown_moves = WalkMoves(LiveTable)

\* evaluate returned a count for a walk that leaves a 2-entry cell twice, so
\* tortoise and hare stood on the same cell with different tables
EvaluateExactWitness ==
    /\ KeyHandled
    /\ shown_moves >= 9
    /\ \E p \in Cells : Len(LiveTable[p]) = 2

\* C6: evaluate is read-only.  No iteration of _get_moves changes the live
\* table (contents and order of every queue), remaining_arrows, the
\* landmarks, the start or total_arrows.
EvaluateReadOnly ==
    [][pc = "eval" =>
         /\ heap'["live"] = heap["live"]
         /\ remaining_arrows' = remaining_arrows
         /\ landmarks' = landmarks
         /\ start' = start
         /\ total_arrows' = total_arrows]_vars

\* inside _get_moves the hare's copy and the tortoise's copy have both been
\* toggled away from the live table, and from each other
EvaluateReadOnlyWitness ==
    /\ pc = "eval"
    /\ moves >= 2
    /\ heap["hare"] # heap["live"]
    /\ heap["tortoise"] # heap["live"]
    /\ heap["tortoise"] # heap["hare"]

\* C7: evaluate agrees with run.  A run that was not aborted returns the move
\* count _get_moves computes for the same table: N when it stopped on GOAL,
\* -1 when it stopped at a dead end; and a run over a table whose count is a
\* finite N never takes more than N steps.
EvaluateAgreesWithRun ==
    /\ (pc = "edit" /\ last_op = "run" /\ run_exit \in {"goal", "dead"}) =>
          /\ run_moves = shown_moves
          /\ run_exit = "goal" <=> shown_moves >= 0
          /\ run_exit = "dead" <=> shown_moves = -1
    /\ pc = "run" =>
          (WalkMoves(run_begin.table) >= 0 =>
              run_moves <= WalkMoves(run_begin.table))

\* a run over a table with a 2-entry queue reached GOAL after 9 steps
EvaluateAgreesWitness ==
    /\ pc = "edit"
    /\ last_op = "run"
    /\ run_exit = "goal"
    /\ run_moves >= 9
    /\ shown_moves >= 9

\* C8: run restores the configuration.  Once the loop of run is left - on
\* GOAL, at a dead end, or by the q key - the live table equals, queue for
\* queue and in the same order, the table that was live when the run began,
\* and remaining_arrows has its value from then.
RunRestores ==
    (last_op = "run" /\ pc # "run") =>
        /\ LiveTable = run_begin.table
        /\ remaining_arrows = run_begin.remaining

\* a run was aborted after an odd number of departures from the 2-entry
\* start cell, and the queue is back in its order
RunRestoresWitness ==
    /\ pc = "edit"
    /\ last_op = "run"
    /\ run_exit = "quit"
    /\ run_moves = 1
    /\ Len(LiveTable[start]) = 2

\* C9: evaluate terminates.  Every iteration of the loop of _get_moves either
\* returns or adds to moves, and moves never exceeds twice the number of
\* states of the walk; so the loop returns after at most WalkBound
\* iterations.
EvaluateTerminates ==
    [][pc = "eval" =>
         /\ moves <= 2 * WalkBound(LiveTable)
         /\ pc' # "eval" \/ moves' > moves]_vars

\* evaluate returned INFINITE for a walk that never dead-ends and whose cycle
\* does not pass through the start: no arrow points to the start cell
EvaluateTerminatesWitness ==
    /\ KeyHandled
    /\ shown_moves = INFINITE
    /\ ~WalkDeadEnds(LiveTable, start, WalkBound(LiveTable))
    /\ \A d \in Orientations :
          LET n == CellAtOrientation(start, d)
          IN  n \in Cells =>
                \A i \in 1 .. Len(LiveTable[n]) :
                    LiveTable[n][i] # OppositeOrientation(d)

\* C10 as stated: whenever the start cell's queue is empty, the move count
\* computed by _get_moves is INFINITE.
StartEmptyInfinite ==
    (pc = "edit" /\ Len(LiveTable[start]) = 0) => shown_moves = INFINITE

\* C10, amended: whenever the start cell's queue is empty and the start cell
\* does not carry GOAL, the move count computed by _get_moves is INFINITE.
StartEmptyNoGoalInfinite ==
    (pc = "edit" /\ Len(LiveTable[start]) = 0 /\ GOAL \notin landmarks[start])
        => shown_moves = INFINITE

\* evaluate returned INFINITE with arrows on the board and none at the start
StartEmptyWitness ==
    /\ KeyHandled
    /\ Len(LiveTable[start]) = 0
    /\ GOAL \notin landmarks[start]
    /\ ArrowCount(LiveTable) >= 2
    /\ shown_moves = INFINITE

(***************************************************************************)
(* Properties of one arrow key, stated over the key last handled and the   *)
(* table and budget it met (key_before).                                   *)
(***************************************************************************)
\* an arrow key has been handled since the last reset or run
KeyDone == last_op = "key"

\* the legality rule of placement, from the landmarks
Placeable(p, d) ==
    /\ p \in Cells
    /\ GOAL \notin landmarks[p]
    /\ BOULDER \notin landmarks[p]
    /\ CellAtOrientation(p, d) \in Cells
    /\ BOULDER \notin landmarks[CellAtOrientation(p, d)]

Holds(queue, d) == \E i \in 1 .. Len(queue) : queue[i] = d

\* the last key changed neither a queue nor the budget
KeyWasNoOp ==
    /\ LiveTable = key_before.table
    /\ remaining_arrows = key_before.remaining

\* the last key changed no queue outside the cells of S
OtherCellsKept(S) ==
    \A c \in Cells \ S : LiveTable[c] = key_before.table[c]

\* C11: illegal placement is a soft-fail.  An arrow key for direction d at a
\* cell that carries GOAL or BOULDER, or whose neighbour in d is off the grid
\* or carries BOULDER, leaves every queue and remaining_arrows unchanged and
\* raises no error, whatever the length of the queue at the cell.
IllegalPlacementNoOp ==
    (KeyDone /\ ~Placeable(key_before.position, key_before.orientation)) =>
        /\ KeyWasNoOp
        /\ pc # "crashed"

\* an illegal direction was asked of a cell whose queue is full
IllegalPlacementWitness ==
    /\ KeyHandled
    /\ ~Placeable(key_before.position, key_before.orientation)
    /\ Len(key_before.table[key_before.position]) = 2
    /\ key_before.remaining >= 1

\* C12 as stated: with remaining_arrows = 0, an arrow key for a direction that
\* is not in the cell's queue changes neither a queue nor remaining_arrows.
OutOfBudgetNoOp ==
    (/\ KeyDone
     /\ key_before.remaining = 0
     /\ ~Holds(key_before.table[key_before.position], key_before.orientation))
        => KeyWasNoOp

\* C12, amended: with remaining_arrows = 0, an arrow key for a direction that
\* is not in the cell's queue changes neither a queue nor remaining_arrows,
\* provided the call retracts nothing: the queue at the cell is not full and
\* the neighbour in that direction does not hold the opposite arrow.
OutOfBudgetNoRetractionNoOp ==
    (/\ KeyDone
     /\ key_before.remaining = 0
     /\ ~Holds(key_before.table[key_before.position], key_before.orientation)
     /\ \/ ~Placeable(key_before.position, key_before.orientation)
        \/ /\ Len(key_before.table[key_before.position]) < 2
           /\ ~Holds(key_before.table[CellAtOrientation(key_before.position,
                                                         key_before.orientation)],
                     OppositeOrientation(key_before.orientation)))
        => KeyWasNoOp

\* a legal placement was asked of a cell holding one arrow with the budget
\* used up, and nothing changed
OutOfBudgetWitness ==
    /\ KeyHandled
    /\ total_arrows >= 1
    /\ key_before.remaining = 0
    /\ Placeable(key_before.position, key_before.orientation)
    /\ Len(key_before.table[key_before.position]) = 1
    /\ ~Holds(key_before.table[key_before.position], key_before.orientation)
    /\ ~Holds(key_before.table[CellAtOrientation(key_before.position,
                                                  key_before.orientation)],
              OppositeOrientation(key_before.orientation))
    /\ KeyWasNoOp

\* C13: reset.  The r key makes every queue of the live table empty and sets
\* remaining_arrows to total_arrows, and leaves the landmarks, the start, the
\* size and total_arrows unchanged.
ResetClears ==
    [][(pc = "edit" /\ last_op' = "reset" /\ pc' # "done") =>
         /\ \A c \in Cells : heap'["live"][c] = <<>>
         /\ DOMAIN heap'["live"] = Cells
         /\ remaining_arrows' = total_arrows
         /\ landmarks' = landmarks
         /\ start' = start
         /\ total_arrows' = total_arrows
         /\ rows' = rows
         /\ cols' = cols]_vars

\* a reset has been handled in a session with a budget, and the move count
\* of the empty table has been computed
ResetWitness ==
    /\ pc = "edit"
    /\ last_op = "reset"
    /\ total_arrows >= 2
    /\ remaining_arrows = total_arrows
    /\ ArrowCount(LiveTable) = 0

\* C14 as stated: in a session with total_arrows = 0 every arrow key is a
\* no-op, all queues stay empty, and the move count computed after every key
\* is INFINITE.
ZeroBudgetInfinite ==
    total_arrows = 0 =>
        /\ \A c \in Cells : LiveTable[c] = <<>>
        /\ remaining_arrows = 0
        /\ KeyDone => KeyWasNoOp
        /\ KeyHandled => shown_moves = INFINITE

\* C14, amended: in a session with total_arrows = 0 every arrow key is a
\* no-op and all queues stay empty; the move count computed after every key
\* is INFINITE when the start cell does not carry GOAL (and 0 when it does).
ZeroBudgetNoOp ==
    total_arrows = 0 =>
        /\ \A c \in Cells : LiveTable[c] = <<>>
        /\ remaining_arrows = 0
        /\ KeyDone => KeyWasNoOp
        /\ KeyHandled =>
             shown_moves = (IF GOAL \in landmarks[start] THEN 0 ELSE INFINITE)

\* on the 1x2 grid with START at (0,0) and GOAL at (0,1) and no budget, the
\* key RIGHT at (0,0) was handled and the move count is INFINITE
ZeroBudgetWitness ==
    /\ KeyHandled
    /\ total_arrows = 0
    /\ rows = 1
    /\ cols = 2
    /\ landmarks[<<0, 0>>] = {START}
    /\ landmarks[<<0, 1>>] = {GOAL}
    /\ key_before.position = <<0, 0>>
    /\ key_before.orientation = RIGHT
    /\ shown_moves = INFINITE

\* the 1x3 grid with START at (0,0), BOULDER at (0,1) and GOAL at (0,2)
ObstacleBoard ==
    /\ rows = 1
    /\ cols = 3
    /\ landmarks[<<0, 0>>] = {START}
    /\ landmarks[<<0, 1>>] = {BOULDER}
    /\ landmarks[<<0, 2>>] = {GOAL}

\* C15: the obstacle blocks the path.  On the 1x3 grid START, BOULDER, GOAL,
\* with any budget, _can_add_orientation((0,0), RIGHT) is false, the queue at
\* (0,0) stays empty, and the move count computed after any sequence of arrow
\* keys is INFINITE.
ObstacleBlocksPath ==
    ObstacleBoard =>
        /\ ~CanAddOrientation(<<0, 0>>, RIGHT)
        /\ LiveTable[<<0, 0>>] = <<>>
        /\ pc = "edit" => shown_moves = INFINITE

\* on that grid, with budget, the key RIGHT at (0,0) was handled and the
\* move count is INFINITE
ObstacleWitness ==
    /\ KeyHandled
    /\ ObstacleBoard
    /\ total_arrows >= 2
    /\ key_before.position = <<0, 0>>
    /\ key_before.orientation = RIGHT
    /\ shown_moves = INFINITE

\* C16 as stated: a grid in which no cell carries START yields no session:
\* the program is never at a point where an operation can be started or is
\* under way on an object whose _start is None.
MissingStartFails ==
    start = None => pc \notin {"start", "edit", "eval", "run"}

\* the cell, the direction, the queue at the cell and the neighbour across
\* the edge, of the last arrow key
KeyCell == key_before.position

KeyDir == key_before.orientation

KeyQueue == key_before.table[KeyCell]

KeyNeighbour == CellAtOrientation(KeyCell, KeyDir)

\* the last key asked for a legal direction that the queue did not hold
KeyPlacesNew == KeyDone /\ Placeable(KeyCell, KeyDir) /\ ~Holds(KeyQueue, KeyDir)

\* the neighbour across the edge held the opposite arrow before the last key
KeyEdgeTaken ==
    Holds(key_before.table[KeyNeighbour], OppositeOrientation(KeyDir))

\* the queue a placement of the last key's direction leaves at the cell
KeyQueuePlaced ==
    <<KeyDir>> \o (IF Len(KeyQueue) = 2 THEN <<KeyQueue[1]>> ELSE KeyQueue)

\* C17: opposite-edge retraction.  When an arrow key places direction d at P
\* (legal, d not in P's queue) and the neighbour N in direction d holds the
\* opposite of d, the opposite arrow leaves N's queue, d is inserted at index
\* 0 of P's queue whatever the budget was, and remaining_arrows ends equal to
\* its value before the key when P's queue was not full (one more when it
\* was, its inactive arrow being retracted too); no other cell changes.
OppositeEdgeRetraction ==
    (KeyPlacesNew /\ KeyEdgeTaken) =>
        /\ LiveTable[KeyNeighbour] =
             SelectSeq(key_before.table[KeyNeighbour],
                       LAMBDA x : x # OppositeOrientation(KeyDir))
        /\ Len(LiveTable[KeyNeighbour]) =
             Len(key_before.table[KeyNeighbour]) - 1
        /\ LiveTable[KeyCell] = KeyQueuePlaced
        /\ remaining_arrows =
             key_before.remaining + (IF Len(KeyQueue) = 2 THEN 1 ELSE 0)
        /\ OtherCellsKept({KeyCell, KeyNeighbour})

\* with no budget left, an arrow was placed across an edge the neighbour held
OppositeEdgeWitness ==
    /\ KeyHandled
    /\ KeyPlacesNew
    /\ KeyEdgeTaken
    /\ key_before.remaining = 0
    /\ Len(KeyQueue) < 2
    /\ remaining_arrows = 0
    /\ LiveTable[KeyCell][1] = KeyDir

\* C18: removing the active arrow.  An arrow key for the index-0 entry d of
\* the queue at the cell removes exactly that entry and refunds exactly one
\* arrow: a queue <<d>> becomes empty, a queue <<d, e>> becomes <<e>>, and no
\* other cell's queue changes.
RemoveActive ==
    (KeyDone /\ Len(KeyQueue) >= 1 /\ KeyQueue[1] = KeyDir) =>
        /\ LiveTable[KeyCell] = Tail(KeyQueue)
        /\ remaining_arrows = key_before.remaining + 1
        /\ OtherCellsKept({KeyCell})

\* the active arrow of a full queue was removed
RemoveActiveWitness ==
    /\ KeyHandled
    /\ Len(KeyQueue) = 2
    /\ KeyQueue[1] = KeyDir
    /\ LiveTable[KeyCell] = <<KeyQueue[2]>>

\* C19: activating the inactive arrow.  An arrow key for d at a cell whose
\* queue is <<e, d>> turns the queue into <<d, e>> and changes nothing else:
\* remaining_arrows and every other cell's queue, the neighbour across the
\* edge included, are unchanged.
ActivateInactive ==
    (KeyDone /\ Len(KeyQueue) = 2 /\ KeyQueue[2] = KeyDir) =>
        /\ LiveTable[KeyCell] = <<KeyQueue[2], KeyQueue[1]>>
        /\ remaining_arrows = key_before.remaining
        /\ OtherCellsKept({KeyCell})
        /\ LiveTable[KeyNeighbour] = key_before.table[KeyNeighbour]

\* the inactive arrow of a full queue was activated
ActivateInactiveWitness ==
    /\ KeyHandled
    /\ Len(KeyQueue) = 2
    /\ KeyQueue[2] = KeyDir
    /\ KeyQueue[1] # KeyDir
    /\ LiveTable[KeyCell][1] = KeyDir

\* the arrows the last key's placement takes back first: the inactive arrow
\* of a full queue, and the opposite arrow across the edge
KeyRefunds ==
    (IF Len(KeyQueue) = 2 THEN 1 ELSE 0) + (IF KeyEdgeTaken THEN 1 ELSE 0)

\* C20: placement order and replacement.  When an arrow key places a new
\* direction d (d not in the queue, legal, budget available after refunds),
\* d becomes index 0 and the previously active entry, if any, index 1; a
\* queue <<a, b>> becomes <<d, a>>, b being refunded first, so a replacement
\* succeeds even when remaining_arrows was 0 before the key.
PlacementOrder ==
    /\ (KeyPlacesNew /\ key_before.remaining + KeyRefunds > 0) =>
          /\ LiveTable[KeyCell] = KeyQueuePlaced
          /\ remaining_arrows = key_before.remaining + KeyRefunds - 1
    /\ (KeyPlacesNew /\ Len(KeyQueue) = 2) =>
          /\ LiveTable[KeyCell] = <<KeyDir, KeyQueue[1]>>
          /\ ~Holds(LiveTable[KeyCell], KeyQueue[2])

\* with no budget left and no arrow across the edge, the inactive arrow of a
\* full queue was replaced
PlacementOrderWitness ==
    /\ KeyHandled
    /\ KeyPlacesNew
    /\ ~KeyEdgeTaken
    /\ Len(KeyQueue) = 2
    /\ key_before.remaining = 0
    /\ remaining_arrows = 0
    /\ LiveTable[KeyCell] = <<KeyDir, KeyQueue[1]>>

(***************************************************************************)
(* Properties of _advance called directly, under StepSpec.                 *)
(***************************************************************************)
\* the call of _advance just made returned True
StepMoved == pc = "step" /\ step_result' = "moved"

\* C21: toggle on departure.  A successful step out of a cell swaps that
\* cell's queue iff it has 2 entries and changes no other cell's queue; so
\* from a single-arrow cell the next departure goes the same way as the last
\* one, from a two-arrow cell it goes the other of its two directions, and
\* after it the queue is again in the order it had before the last departure.
ToggleOnDeparture ==
    [][StepMoved =>
         LET p == position
             q == heap["live"][p]
         IN  /\ heap'["live"][p] =
                  (IF Len(q) = 2 THEN <<q[2], q[1]>> ELSE q)
             /\ \A c \in Cells \ {p} : heap'["live"][c] = heap["live"][c]
             /\ position' = CellAtOrientation(p, q[1])
             /\ Len(departed[p]) >= 1 =>
                  LET last == departed[p][1]
                  IN  /\ heap'["live"][p] = last.queue
                      /\ Len(last.queue) = 1 => position' = last.to
                      /\ Len(last.queue) = 2 =>
                           position' = CellAtOrientation(p, last.queue[2])]_vars

\* a cell with two different arrows was left twice, by one arrow and then by
\* the other, and its queue is in its first order again
ToggleWitness ==
    /\ pc = "step"
    /\ \E c \in Cells :
         /\ Len(departed[c]) = 2
         /\ Len(departed[c][2].queue) = 2
         /\ departed[c][2].queue[1] # departed[c][2].queue[2]
         /\ departed[c][1].to # departed[c][2].to
         /\ heap["live"][c] = departed[c][2].queue

\* the queue at the position _advance is called with
StepQueue == heap["live"][position]

\* the cell the active arrow of that queue points to
StepTarget == CellAtOrientation(position, StepQueue[1])

\* the call of _advance just made returned False and changed neither the
\* position nor any queue
StepWasNoOp ==
    /\ step_result' = "stayed"
    /\ position' = position
    /\ heap' = heap

\* C22: step dead end.  _advance on a cell whose queue is empty, or whose
\* active arrow points outside the grid, returns False and leaves the position
\* and the whole table unchanged; a 2-entry queue whose active arrow points
\* off the grid is not swapped.
StepDeadEnd ==
    [][(/\ pc = "step"
        /\ IF Len(StepQueue) = 0 THEN TRUE ELSE StepTarget \notin Cells)
         => StepWasNoOp]_vars

\* after at least one move, the walk stands on a cell whose active arrow
\* points off the grid while its inactive arrow points to a cell; the call
\* returned False
StepDeadEndWitness ==
    /\ pc = "step"
    /\ step_result = "stayed"
    /\ Len(StepQueue) = 2
    /\ StepTarget \notin Cells
    /\ CellAtOrientation(position, StepQueue[2]) \in Cells
    /\ \E c \in Cells : Len(departed[c]) >= 1

\* C23 as stated: for any table passed to _advance, if the active arrow at
\* the position points to a cell of the grid that carries BOULDER, the call
\* returns False and leaves the position and the table unchanged.
StepIntoObstacleNoOp ==
    [][(/\ pc = "step"
        /\ Len(StepQueue) >= 1
        /\ IF Len(StepQueue) = 0 THEN FALSE
           ELSE /\ StepTarget \in Cells
                /\ BOULDER \in landmarks[StepTarget])
         => StepWasNoOp]_vars

(***************************************************************************)
(* Properties of run() under FairSpec.                                     *)
(***************************************************************************)
\* the walk over the table the run began with meets GOAL or comes to a cell
\* it cannot leave
RunStops ==
    \/ WalkMoves(run_begin.table) # INFINITE
    \/ WalkDeadEnds(run_begin.table, start, WalkBound(run_begin.table))

\* C24: run liveness.  A run whose walk from the start reaches a GOAL cell or
\* a dead end eventually stops, aborted or not; a run whose walk cycles can
\* always step on, never stops by itself, and leaves its loop only by the q
\* key, after which the live table is the one the run began with.
RunLiveness ==
    /\ (pc = "run" /\ RunStops) ~> (pc # "run")
    /\ [](pc = "run" /\ ~RunStops =>
            /\ GOAL \notin landmarks[position]
            /\ Len(LiveTable[position]) >= 1
            /\ CellAtOrientation(position, LiveTable[position][1]) \in Cells)
    /\ [][(pc = "run" /\ pc' # "run" /\ ~RunStops) =>
            /\ run_exit' = "quit"
            /\ heap'["live"] = run_begin.table]_vars

\* a run whose walk cycles went twice round its cycle or more, was aborted,
\* and the live table is the one it began with
RunLivenessWitness ==
    /\ pc = "edit"
    /\ last_op = "run"
    /\ run_exit = "quit"
    /\ ~RunStops
    /\ run_moves >= 8
    /\ LiveTable = run_begin.table
    /\ shown_moves = INFINITE

(***************************************************************************)
(* Properties of the same arrow key pressed twice in a row: key_before     *)
(* holds the second key, key_before.first the state the first one met.     *)
(***************************************************************************)
KeyTwice == KeyDone /\ Len(key_before.first) = 1

First == key_before.first[1]

FirstQueue == First.table[KeyCell]

\* the first of the two keys placed a new arrow and took another one back
\* for it: the opposite arrow across the edge, or the inactive arrow of a
\* full queue
FirstRetractedOther ==
    /\ Placeable(KeyCell, KeyDir)
    /\ ~Holds(FirstQueue, KeyDir)
    /\ \/ Len(FirstQueue) = 2
       \/ Holds(First.table[KeyNeighbour], OppositeOrientation(KeyDir))

\* the two keys asked for the inactive arrow of a full queue
FirstAskedInactive == Len(FirstQueue) = 2 /\ FirstQueue[2] = KeyDir

\* every queue and the budget are as the first of the two keys met them
BackToFirst ==
    /\ LiveTable = First.table
    /\ remaining_arrows = First.remaining

\* C25 as stated: the same arrow key twice in a row restores every queue
\* (contents and order) and remaining_arrows, provided the first key did not
\* retract another arrow.
DoubleToggleIdentity == (KeyTwice /\ ~FirstRetractedOther) => BackToFirst

\* C25, amended: the same arrow key twice in a row restores every queue and
\* remaining_arrows, provided the first key did not retract another arrow and
\* did not ask for the inactive arrow of a full queue; asked for the inactive
\* arrow d of a queue <<e, d>>, the two keys leave <<e>>, one arrow refunded,
\* and no other queue changed.
DoubleToggleRestores ==
    /\ (KeyTwice /\ ~FirstRetractedOther /\ ~FirstAskedInactive) => BackToFirst
    /\ (KeyTwice /\ FirstAskedInactive) =>
          /\ LiveTable = [First.table EXCEPT ![KeyCell] = <<FirstQueue[1]>>]
          /\ remaining_arrows = First.remaining + 1

\* the key placed a second arrow in a queue and, pressed again, removed it
DoubleToggleWitness ==
    /\ KeyHandled
    /\ KeyTwice
    /\ Placeable(KeyCell, KeyDir)
    /\ Len(FirstQueue) = 1
    /\ FirstQueue[1] # KeyDir
    /\ First.remaining >= 1
    /\ KeyQueue = <<KeyDir>> \o FirstQueue
    /\ LiveTable = First.table
====
